---- MODULE Spec2Model ----
(***************************************************************************)
(* Model of the smart-meter logger (src/src/smartmeter_logger.py with      *)
(* src/keiconf_broute.py): the bounded data queue, the consumer loop of    *)
(* SmartMeterLogger.run, the record parser, the CSV and InfluxDB writers   *)
(* and the shutdown path.                                                  *)
(*                                                                         *)
(* SpecRun starts where run() has just received the return value of        *)
(* _init_broute_reader (line 294) and covers lines 294-347 for either      *)
(* return value: the value is an input of SpecRun, and so are the states   *)
(* _init_influxdb can leave the client in.  SpecQueue is the same machine  *)
(* started with a long burst of records, so that the queue fills to its    *)
(* capacity.  FairSpecShutdown is the same machine with the fairness of    *)
(* _cleanup, for the shutdown path.                                        *)
(*                                                                         *)
(* SpecStartup is run() from its first line up to the loop: _init_influxdb *)
(* and _init_broute_reader as the code composes them, starting from the    *)
(* object __init__ builds.                                                 *)
(*                                                                         *)
(* The producer is the reader thread of keilib.broute, which is not part   *)
(* of the sources modelled here: it is a thread that puts the items of     *)
(* `feed` into the queue, in order, with a blocking put.                   *)
(*                                                                         *)
(* Cancellation is Python's KeyboardInterrupt: it is raised in the main    *)
(* thread wherever that thread happens to be.  The model delivers it while *)
(* the loop of run() is executing (one signal).                            *)
(***************************************************************************)
EXTENDS Integers, Sequences, FiniteSets, TLC

\* ------------------------------------------------------------------ bounds
\* number of distinct file names strftime yields during a run
MaxDay == 2
\* length of the record sequences the producer emits (SpecRun)
MaxFeed == 2
\* number of I/O failures the environment injects in one run
MaxFaults == 1
\* length of the burst the producer emits in SpecQueue
MaxBurst == 52

\* --------------------------------------------------------- program constants
\* queue.Queue(50)
QueueCapacity == 50

VARIABLES
    cfg,            \* self.config: [csvEnabled, influxEnabled]
    env,            \* the host: [influxLib, serialOk, deviceOk]
    connects,       \* number of InfluxDBClient(...) constructions
    feed,           \* the raw items the producer thread will put, in order
    pushed,         \* how many of them it has put
    data_queue,     \* self.data_queue
    pc,             \* position of the main thread in run()
    readerOk,       \* return value of _init_broute_reader()
    reader,         \* self.reader: "None" | "created" | "started" | "stopped"
    influx_client,  \* self.influx_client: "None" | "open" | "closed"
    write_api,      \* self.write_api: "None" | "api"
    queue_data,     \* local queue_data of run()
    parsed_data,    \* local parsed_data of run()
    now,            \* index of the file name datetime.now() formats to
    files,          \* the CSV output directory: file name -> [exists, lines]
    points,         \* points the time-series store has accepted
    popped,         \* number of items taken from the queue
    csvCalls,       \* csvCalls[i]: calls of _write_to_csv for the i-th popped item
    influxCalls,    \* influxCalls[i]: calls of _write_to_influxdb for it
    errors,         \* number of logger.error calls
    faults,         \* failures injected so far
    exitStatus,     \* process exit status, -1 while running
    stopCalls,      \* calls of reader.stop()
    closeCalls      \* calls of influx_client.close()

vars == <<cfg, env, connects, feed, pushed, data_queue, pc, readerOk, reader, influx_client,
          write_api, queue_data, parsed_data, now, files, points, popped,
          csvCalls, influxCalls, errors, faults, exitStatus, stopCalls,
          closeCalls>>

\* ---------------------------------------------------------- Python values
PyNone == [none |-> TRUE, items |-> <<>>]
Dict(items) == [none |-> FALSE, items |-> items]
\* truth value of a dict-or-None
Truthy(d) == ~d.none /\ d.items # <<>>

IntVal(n) == [type |-> "int", n |-> n]
\* a float with one fractional digit, held as tenths
FloatVal(t) == [type |-> "float", n |-> t]

\* a queue item: a Python list of n elements (source, epc, value, status),
\* the object None, or an integer
Item(kind, n, source, epc, value) ==
    [kind |-> kind, n |-> n, source |-> source, epc |-> epc, value |-> value]
NoItem == Item("none", 0, "", "", <<>>)

\* ------------------------------------------------------------ int(), float()
Digits == <<"0", "1", "2", "3", "4", "5", "6", "7", "8", "9">>
IsDigit(c) == \E i \in 1..10 : Digits[i] = c
DigitVal(c) == (CHOOSE i \in 1..10 : Digits[i] = c) - 1

RECURSIVE DigitsVal(_)
DigitsVal(s) ==
    IF s = <<>> THEN 0
    ELSE 10 * DigitsVal(SubSeq(s, 1, Len(s) - 1)) + DigitVal(s[Len(s)])

AllDigits(s) == s # <<>> /\ \A i \in 1..Len(s) : IsDigit(s[i])
HasSign(s) == s # <<>> /\ s[1] \in {"-", "+"}
Unsigned(s) == IF HasSign(s) THEN Tail(s) ELSE s
Signed(s, n) == IF HasSign(s) /\ s[1] = "-" THEN 0 - n ELSE n

\* int(value) of a string: [ok, v]; ok = FALSE is ValueError
ParseInt(s) ==
    IF AllDigits(Unsigned(s))
    THEN [ok |-> TRUE, v |-> IntVal(Signed(s, DigitsVal(Unsigned(s))))]
    ELSE [ok |-> FALSE, v |-> IntVal(0)]

DotAt(s) == {i \in 1..Len(s) : s[i] = "."}
\* float(value) of a string with at most one fractional digit
ParseFloat(s) ==
    LET u == Unsigned(s) IN
    IF AllDigits(u)
    THEN [ok |-> TRUE, v |-> FloatVal(Signed(s, 10 * DigitsVal(u)))]
    ELSE IF /\ Len(u) >= 3
            /\ DotAt(u) = {Len(u) - 1}
            /\ AllDigits(SubSeq(u, 1, Len(u) - 2))
            /\ IsDigit(u[Len(u)])
         THEN [ok |-> TRUE,
               v |-> FloatVal(Signed(s, 10 * DigitsVal(SubSeq(u, 1, Len(u) - 2))
                                        + DigitVal(u[Len(u)])))]
         ELSE [ok |-> FALSE, v |-> FloatVal(0)]

\* ------------------------------------------------------- _parse_queue_data
\* the if/elif chain: EPC -> key of the parsed dict and conversion
EpcInt == {"E7", "D3", "D7", "E1"}
EpcFloat == {"E0", "E3", "E8R", "E8T"}
\* mutant: two branches of the chain carry each other's key
EpcKey_Swapped(epc) ==
    CASE epc = "E7" -> "instant_power_w"
      [] epc = "E0" -> "energy_reverse_kwh"
      [] epc = "E3" -> "energy_total_kwh"
      [] epc = "D3" -> "coefficient"
      [] epc = "D7" -> "effective_digits"
      [] epc = "E1" -> "unit"
      [] epc = "E8R" -> "instant_current_r"
      [] epc = "E8T" -> "instant_current_t"
      [] OTHER -> ""

EpcKey(epc) ==
    CASE epc = "E7" -> "instant_power_w"
      [] epc = "E0" -> "energy_total_kwh"
      [] epc = "E3" -> "energy_reverse_kwh"
      [] epc = "D3" -> "coefficient"
      [] epc = "D7" -> "effective_digits"
      [] epc = "E1" -> "unit"
      [] epc = "E8R" -> "instant_current_r"
      [] epc = "E8T" -> "instant_current_t"
      [] OTHER -> ""

\* result of _parse_queue_data: ret is the dict or None, logged says whether
\* logger.error was called, raised whether an exception left the function
ParseResult(ret, logged, raised) == [ret |-> ret, logged |-> logged, raised |-> raised]

\* mutant: the test of the source tag is missing
ParseQueueData_NoSourceCheck(item) ==
    IF item.kind = "none" THEN ParseResult(PyNone, FALSE, FALSE)
    ELSE IF item.kind # "list" THEN ParseResult(PyNone, FALSE, TRUE)
    ELSE IF item.n < 3 THEN ParseResult(PyNone, FALSE, FALSE)
    ELSE IF item.epc \in EpcInt \cup EpcFloat
    THEN LET conv == IF item.epc \in EpcInt THEN ParseInt(item.value)
                     ELSE ParseFloat(item.value) IN
         IF conv.ok
         THEN ParseResult(Dict(<<[k |-> EpcKey(item.epc), v |-> conv.v]>>), FALSE, FALSE)
         ELSE ParseResult(PyNone, TRUE, FALSE)
    ELSE ParseResult(PyNone, FALSE, FALSE)

ParseQueueData(item) ==
    IF item.kind = "none" THEN ParseResult(PyNone, FALSE, FALSE)
    ELSE IF item.kind # "list" THEN ParseResult(PyNone, FALSE, TRUE)
    ELSE IF item.n < 3 THEN ParseResult(PyNone, FALSE, FALSE)
    ELSE IF item.source # "BR" THEN ParseResult(PyNone, FALSE, FALSE)
    ELSE IF item.epc \in EpcInt \cup EpcFloat
    THEN LET conv == IF item.epc \in EpcInt THEN ParseInt(item.value)
                     ELSE ParseFloat(item.value) IN
         IF conv.ok
         THEN ParseResult(Dict(<<[k |-> EpcKey(item.epc), v |-> conv.v]>>), FALSE, FALSE)
         ELSE ParseResult(PyNone, TRUE, FALSE)
    ELSE ParseResult(PyNone, FALSE, FALSE)

\* ------------------------------------------------------------ _write_to_csv
NoFile == [exists |-> FALSE, lines |-> <<>>]

\* str() of a parsed value, as csv.DictWriter writes it
FormatValue(v) ==
    IF v.type = "int" THEN ToString(v.n)
    ELSE LET a == IF v.n < 0 THEN 0 - v.n ELSE v.n IN
         (IF v.n < 0 THEN "-" ELSE "") \o ToString(a \div 10) \o "." \o ToString(a % 10)

\* datetime.now().isoformat()
TimestampText(t) == "t" \o ToString(t)

\* fieldnames = ['timestamp'] + list(data.keys())
CsvFieldnames(data) ==
    <<"timestamp">> \o [i \in 1..Len(data.items) |-> data.items[i].k]

\* row = {'timestamp': ...}; row.update(data); the cells writerow emits
CsvRowCells(data, t) ==
    <<TimestampText(t)>> \o [i \in 1..Len(data.items) |-> FormatValue(data.items[i].v)]

HeaderLine(data) == [kind |-> "header", cells |-> CsvFieldnames(data)]
RowLine(data, t) == [kind |-> "row", cells |-> CsvRowCells(data, t)]

\* What the with-block of _write_to_csv leaves in the file when it got as far
\* as `progress`: "opened" (open(..., 'a') created the file), "header"
\* (writeheader reached the file) or "row" (the data row did too).
\* file_exists is taken before the file is opened.
CsvFileAfter(f, data, t, progress) ==
    LET file_exists == f.exists
        hdr == IF ~file_exists /\ progress \in {"header", "row"}
               THEN <<HeaderLine(data)>> ELSE <<>>
        row == IF progress = "row" THEN <<RowLine(data, t)>> ELSE <<>>
    IN [exists |-> TRUE, lines |-> f.lines \o hdr \o row]

\* outcomes of one _write_to_csv call with the CSV sink enabled:
\*   mkdir_error   output_dir.mkdir raises in _get_csv_filepath
\*   open_error    open() raises
\*   write_opened  an I/O error after open() created the file
\*   write_header  an I/O error after the header reached the file
\*   ok
CsvFailures == {"mkdir_error", "open_error", "write_opened", "write_header"}
CsvProgress(outcome) ==
    CASE outcome = "write_opened" -> "opened"
      [] outcome = "write_header" -> "header"
      [] outcome = "ok" -> "row"
      [] OTHER -> "none"

\* the failures that leave _write_to_csv as an exception: _get_csv_filepath is
\* called before the try block
CsvRaises(outcome) == outcome = "mkdir_error"

\* --------------------------------------------------------- _write_to_influxdb
\* the point built from the config's measurement and tags and the data items
InfluxPoint(data, t) ==
    [measurement |-> cfg.measurement,
     tags |-> cfg.tags,
     fields |-> [i \in 1..Len(data.items) |->
                    [k |-> data.items[i].k, v |-> data.items[i].v]],
     time |-> t]

\* ------------------------------------------------------------------- queue
\* mutant: the bound compared with > instead of >=
Full_OffByOne(q) == QueueCapacity > 0 /\ Len(q) > QueueCapacity

\* queue.Queue: full when 0 < maxsize <= qsize
Full(q) == QueueCapacity > 0 /\ Len(q) >= QueueCapacity
\* mutant: the newest item is taken
Dequeue_Lifo(q) == [item |-> q[Len(q)], rest |-> SubSeq(q, 1, Len(q) - 1)]

\* get() takes the oldest item
Dequeue(q) == [item |-> Head(q), rest |-> Tail(q)]

\* mutant: the exception leaves the loop and reaches the finally clause
OnLoopException_Escapes == "cleanup"

\* run(): "except Exception" around one pass of the loop logs and continues
OnLoopException == "get"

LoopPcs == {"get", "parse", "csv", "influx"}
Running == pc \in LoopPcs

\* ------------------------------------------------------------------ inputs
RawValues == {<<"1", "5">>, <<"0">>, <<"-", "3">>, <<"2", ".", "5">>, <<"x">>, <<>>}
Epcs == EpcInt \cup EpcFloat

\* every shape _parse_queue_data distinguishes
ParserItems ==
    {Item("list", 3, "BR", e, v) : e \in Epcs, v \in RawValues}
    \cup {Item("list", 4, "BR", "E7", <<"1", "5">>),
          Item("list", 3, "BR", "XX", <<"9", "9">>),
          Item("list", 3, "BR", "XX", <<"x">>),
          Item("list", 3, "ZZ", "E7", <<"1", "5">>),
          Item("list", 3, "ZZ", "E7", <<"x">>),
          Item("list", 3, "ZZ", "XX", <<"9", "9">>),
          Item("list", 2, "BR", "E7", <<>>),
          Item("list", 0, "", "", <<>>),
          Item("none", 0, "", "", <<>>),
          Item("int", 0, "", "", <<>>)}

\* the items the longer feeds are made of
CoreItems ==
    {Item("list", 3, "BR", "E7", <<"1", "5">>),
     Item("list", 3, "BR", "E7", <<"x">>),
     Item("list", 3, "BR", "D3", <<"1">>),
     Item("list", 3, "BR", "XX", <<"9", "9">>)}

Feeds ==
    {<<>>} \cup {<<i>> : i \in ParserItems}
    \cup UNION {[1..n -> CoreItems] : n \in 2..MaxFeed}

BurstFeed == [i \in 1..MaxBurst |-> Item("list", 3, "BR", "E7", <<"1", "5">>)]

Config(csv, influx) ==
    [csvEnabled |-> csv, influxEnabled |-> influx,
     measurement |-> "smartmeter", tags |-> <<[k |-> "location", v |-> "home"]>>]

\* the host the process runs on: influxLib is INFLUXDB_AVAILABLE, deviceOk
\* says whether the Wi-SUN device can be opened and started
Host(lib, device) == [influxLib |-> lib, deviceOk |-> device]

\* mutant: the client is built whatever influxdb.enabled says
InfluxInit_IgnoresEnabled(enabled, lib) ==
    IF ~lib
    THEN {[client |-> "None", api |-> "None", attempts |-> 0, logged |-> 1]}
    ELSE {[client |-> "None", api |-> "None", attempts |-> 1, logged |-> 1],
          [client |-> "open", api |-> "None", attempts |-> 1, logged |-> 1],
          [client |-> "open", api |-> "api", attempts |-> 1, logged |-> 0]}

\* _init_influxdb(): what it leaves in influx_client and write_api, the number
\* of InfluxDBClient(...) constructions and of logger.error calls.  With the
\* sink enabled and the library present, the constructor raises, or
\* write_api() raises, or both succeed
InfluxInit(enabled, lib) ==
    IF ~enabled
    THEN {[client |-> "None", api |-> "None", attempts |-> 0, logged |-> 0]}
    ELSE IF ~lib
    THEN {[client |-> "None", api |-> "None", attempts |-> 0, logged |-> 1]}
    ELSE {[client |-> "None", api |-> "None", attempts |-> 1, logged |-> 1],
          [client |-> "open", api |-> "None", attempts |-> 1, logged |-> 1],
          [client |-> "open", api |-> "api", attempts |-> 1, logged |-> 0]}

\* (influx_client, write_api) as _init_influxdb leaves them
InfluxStates(enabled) ==
    {<<o.client, o.api>> : o \in UNION {InfluxInit(enabled, lib) : lib \in BOOLEAN}}

\* run() at line 294, _init_broute_reader() having returned readerOk
InitCommon ==
    /\ pushed = 0
    /\ data_queue = <<>>
    /\ pc = "init_done"
    /\ queue_data = NoItem
    /\ parsed_data = PyNone
    /\ now = 1
    /\ files = [d \in 1..MaxDay |-> NoFile]
    /\ points = <<>>
    /\ popped = 0
    /\ csvCalls = <<>>
    /\ influxCalls = <<>>
    /\ errors = 0
    /\ faults = 0
    /\ exitStatus = -1
    /\ stopCalls = 0
    /\ closeCalls = 0

InitRun ==
    /\ InitCommon
    /\ readerOk \in BOOLEAN
    /\ \E csv \in BOOLEAN, influx \in BOOLEAN, lib \in BOOLEAN :
          /\ cfg = Config(csv, influx)
          /\ env = Host(lib, readerOk)
          /\ \E o \in InfluxInit(influx, lib) :
                /\ influx_client = o.client /\ write_api = o.api
                /\ <<influx_client, write_api>> \in InfluxStates(influx)
                /\ connects = o.attempts
    /\ reader \in (IF readerOk THEN {"started"} ELSE {"None", "created"})
    /\ feed \in (IF readerOk THEN Feeds ELSE {<<>>})

InitQueue ==
    /\ InitCommon
    /\ cfg = Config(FALSE, FALSE)
    /\ influx_client = "None" /\ write_api = "None"
    /\ connects = 0
    /\ readerOk \in BOOLEAN
    /\ env = Host(TRUE, readerOk)
    /\ reader \in (IF readerOk THEN {"started"} ELSE {"None", "created"})
    /\ feed \in (IF readerOk THEN {BurstFeed} ELSE {<<>>})

\* ----------------------------------------------------------------- actions
\* mutant: the error is logged but sys.exit(1) is missing
ExitInitFailure_FallsThrough ==
    /\ pc = "init_done" /\ ~readerOk
    /\ pc' = "get"
    /\ errors' = errors + 1
    /\ UNCHANGED <<cfg, env, connects, feed, pushed, data_queue, readerOk, reader, influx_client,
                   write_api, queue_data, parsed_data, now, files, points, popped,
                   csvCalls, influxCalls, faults, exitStatus, stopCalls, closeCalls>>

\* run() lines 294-296: _init_broute_reader() returned False
ExitInitFailure ==
    /\ pc = "init_done" /\ ~readerOk
    /\ pc' = "exited"
    /\ exitStatus' = 1
    /\ errors' = errors + 1
    /\ UNCHANGED <<cfg, env, connects, feed, pushed, data_queue, readerOk, reader, influx_client,
                   write_api, queue_data, parsed_data, now, files, points, popped,
                   csvCalls, influxCalls, faults, stopCalls, closeCalls>>

\* run() lines 298-301: the loop is entered
EnterLoop ==
    /\ pc = "init_done" /\ readerOk
    /\ pc' = "get"
    /\ UNCHANGED <<cfg, env, connects, feed, pushed, data_queue, readerOk, reader, influx_client,
                   write_api, queue_data, parsed_data, now, files, points, popped,
                   csvCalls, influxCalls, errors, faults, exitStatus, stopCalls,
                   closeCalls>>

\* the producer thread puts its next item; put() blocks while the queue is full
QueuePut ==
    /\ reader = "started" /\ pc # "exited"
    /\ pushed < Len(feed)
    /\ ~Full(data_queue)
    /\ data_queue' = Append(data_queue, feed[pushed + 1])
    /\ pushed' = pushed + 1
    /\ UNCHANGED <<cfg, env, connects, feed, pc, readerOk, reader, influx_client, write_api,
                   queue_data, parsed_data, now, files, points, popped, csvCalls,
                   influxCalls, errors, faults, exitStatus, stopCalls, closeCalls>>

\* run() line 305: data_queue.get(timeout=5) returns an item
QueueGet ==
    /\ pc = "get" /\ data_queue # <<>>
    /\ queue_data' = Dequeue(data_queue).item
    /\ data_queue' = Dequeue(data_queue).rest
    /\ popped' = popped + 1
    /\ csvCalls' = Append(csvCalls, 0)
    /\ influxCalls' = Append(influxCalls, 0)
    /\ pc' = "parse"
    /\ UNCHANGED <<cfg, env, connects, feed, pushed, readerOk, reader, influx_client, write_api,
                   parsed_data, now, files, points, errors, faults, exitStatus,
                   stopCalls, closeCalls>>

\* run() lines 306-307: queue.Empty after the timeout, continue
QueueGetEmpty ==
    /\ pc = "get" /\ data_queue = <<>>
    /\ UNCHANGED vars

\* mutant: a decoded record is handed to _write_to_influxdb first
Parse_DispatchesInfluxFirst ==
    /\ pc = "parse"
    /\ LET r == ParseQueueData(queue_data) IN
       /\ parsed_data' = r.ret
       /\ errors' = IF r.logged \/ r.raised THEN errors + 1 ELSE errors
       /\ pc' = IF r.raised THEN OnLoopException
                ELSE IF Truthy(r.ret) THEN "influx" ELSE "get"
    /\ UNCHANGED <<cfg, env, connects, feed, pushed, data_queue, readerOk, reader,
                   influx_client, write_api, queue_data, now, files, points, popped,
                   csvCalls, influxCalls, faults, exitStatus, stopCalls, closeCalls>>

\* run() lines 310-312, 320-321: _parse_queue_data and the branch on its result
Parse ==
    /\ pc = "parse"
    /\ LET r == ParseQueueData(queue_data) IN
       /\ parsed_data' = r.ret
       /\ errors' = IF r.logged \/ r.raised THEN errors + 1 ELSE errors
       /\ pc' = IF r.raised THEN OnLoopException
                ELSE IF Truthy(r.ret) THEN "csv" ELSE "get"
    /\ UNCHANGED <<cfg, env, connects, feed, pushed, data_queue, readerOk, reader, influx_client,
                   write_api, queue_data, now, files, points, popped, csvCalls,
                   influxCalls, faults, exitStatus, stopCalls, closeCalls>>

\* mutant: a write that failed is attempted again for the same record
WriteCsv_RetriesOnError ==
    /\ pc = "csv"
    /\ csvCalls' = [csvCalls EXCEPT ![popped] = @ + 1]
    /\ IF ~cfg.csvEnabled
       THEN /\ pc' = "influx"
            /\ UNCHANGED <<files, errors, faults>>
       ELSE \E outcome \in {"ok"} \cup (IF faults < MaxFaults THEN CsvFailures ELSE {}) :
            /\ files' = IF CsvProgress(outcome) = "none" THEN files
                        ELSE [files EXCEPT ![now] =
                                CsvFileAfter(@, parsed_data, now, CsvProgress(outcome))]
            /\ errors' = IF outcome = "ok" THEN errors ELSE errors + 1
            /\ faults' = IF outcome = "ok" THEN faults ELSE faults + 1
            /\ pc' = IF outcome = "ok" THEN "influx" ELSE "csv"
    /\ UNCHANGED <<cfg, env, connects, feed, pushed, data_queue, readerOk, reader,
                   influx_client, write_api, queue_data, parsed_data, now, points,
                   popped, influxCalls, exitStatus, stopCalls, closeCalls>>

\* run() line 316: _write_to_csv(parsed_data), with _get_csv_filepath
WriteCsv ==
    /\ pc = "csv"
    /\ csvCalls' = [csvCalls EXCEPT ![popped] = @ + 1]
    /\ IF ~cfg.csvEnabled
       THEN /\ pc' = "influx"
            /\ UNCHANGED <<files, errors, faults>>
       ELSE \E outcome \in {"ok"} \cup (IF faults < MaxFaults THEN CsvFailures ELSE {}) :
            /\ files' = IF CsvProgress(outcome) = "none" THEN files
                        ELSE [files EXCEPT ![now] =
                                CsvFileAfter(@, parsed_data, now, CsvProgress(outcome))]
            /\ errors' = IF outcome = "ok" THEN errors ELSE errors + 1
            /\ faults' = IF outcome = "ok" THEN faults ELSE faults + 1
            /\ pc' = IF CsvRaises(outcome) THEN OnLoopException ELSE "influx"
    /\ UNCHANGED <<cfg, env, connects, feed, pushed, data_queue, readerOk, reader, influx_client,
                   write_api, queue_data, parsed_data, now, points, popped,
                   influxCalls, exitStatus, stopCalls, closeCalls>>

\* run() line 319: _write_to_influxdb(parsed_data)
WriteInflux ==
    /\ pc = "influx"
    /\ influxCalls' = [influxCalls EXCEPT ![popped] = @ + 1]
    /\ IF ~cfg.influxEnabled \/ write_api = "None"
       THEN UNCHANGED <<points, errors, faults>>
       ELSE \E ok \in {TRUE} \cup (IF faults < MaxFaults THEN {FALSE} ELSE {}) :
            /\ points' = IF ok THEN Append(points, InfluxPoint(parsed_data, now))
                         ELSE points
            /\ errors' = IF ok THEN errors ELSE errors + 1
            /\ faults' = IF ok THEN faults ELSE faults + 1
    /\ pc' = "get"
    /\ UNCHANGED <<cfg, env, connects, feed, pushed, data_queue, readerOk, reader, influx_client,
                   write_api, queue_data, parsed_data, now, files, popped, csvCalls,
                   exitStatus, stopCalls, closeCalls>>

\* the clock reaches the next file name of csv.filename_format
Tick ==
    /\ Running /\ now < MaxDay
    /\ now' = now + 1
    /\ UNCHANGED <<cfg, env, connects, feed, pushed, data_queue, pc, readerOk, reader,
                   influx_client, write_api, queue_data, parsed_data, files, points,
                   popped, csvCalls, influxCalls, errors, faults, exitStatus,
                   stopCalls, closeCalls>>

\* run() lines 326-329: KeyboardInterrupt is raised in the main thread, at any
\* point of the loop; inside the with-block of _write_to_csv the file is closed
\* with what had been written to it
Interrupt ==
    /\ Running
    /\ pc' = "cleanup"
    /\ \E progress \in {"none"} \cup
              (IF pc = "csv" /\ cfg.csvEnabled THEN {"opened", "header"} ELSE {}) :
          /\ files' = IF progress = "none" THEN files
                      ELSE [files EXCEPT ![now] =
                              CsvFileAfter(@, parsed_data, now, progress)]
          /\ csvCalls' = IF progress = "none" THEN csvCalls
                         ELSE [csvCalls EXCEPT ![popped] = @ + 1]
    /\ UNCHANGED <<cfg, env, connects, feed, pushed, data_queue, readerOk, reader, influx_client,
                   write_api, queue_data, parsed_data, now, points, popped,
                   influxCalls, errors, faults, exitStatus, stopCalls, closeCalls>>

\* mutant: _cleanup takes what is left in the queue before it stops the reader
Cleanup_DrainsQueue ==
    /\ pc = "cleanup"
    /\ \E stopRaises \in BOOLEAN, closeRaises \in BOOLEAN :
          /\ stopCalls' = IF reader # "None" THEN stopCalls + 1 ELSE stopCalls
          /\ reader' = IF reader # "None" /\ ~stopRaises THEN "stopped" ELSE reader
          /\ closeCalls' = IF influx_client # "None" THEN closeCalls + 1 ELSE closeCalls
          /\ influx_client' = IF influx_client # "None" /\ ~closeRaises
                              THEN "closed" ELSE influx_client
          /\ errors' = errors + (IF reader # "None" /\ stopRaises THEN 1 ELSE 0)
                              + (IF influx_client # "None" /\ closeRaises THEN 1 ELSE 0)
    /\ popped' = popped + Len(data_queue)
    /\ csvCalls' = csvCalls \o [i \in 1..Len(data_queue) |-> 0]
    /\ influxCalls' = influxCalls \o [i \in 1..Len(data_queue) |-> 0]
    /\ data_queue' = <<>>
    /\ pc' = "exited"
    /\ exitStatus' = 0
    /\ UNCHANGED <<cfg, env, connects, feed, pushed, readerOk, write_api,
                   queue_data, parsed_data, now, files, points, faults>>

\* mutant: reader.stop() is not wrapped in try/except, its exception leaves
\* _cleanup before the client is closed
Cleanup_StopErrorEscapes ==
    /\ pc = "cleanup"
    /\ \E stopRaises \in BOOLEAN, closeRaises \in BOOLEAN :
          LET escaped == reader # "None" /\ stopRaises
              closing == ~escaped /\ influx_client # "None" IN
          /\ stopCalls' = IF reader # "None" THEN stopCalls + 1 ELSE stopCalls
          /\ reader' = IF reader # "None" /\ ~stopRaises THEN "stopped" ELSE reader
          /\ closeCalls' = IF closing THEN closeCalls + 1 ELSE closeCalls
          /\ influx_client' = IF closing /\ ~closeRaises THEN "closed" ELSE influx_client
          /\ errors' = errors + (IF closing /\ closeRaises THEN 1 ELSE 0)
          /\ exitStatus' = IF escaped THEN 1 ELSE 0
    /\ pc' = "exited"
    /\ UNCHANGED <<cfg, env, connects, feed, pushed, data_queue, readerOk, write_api, queue_data,
                   parsed_data, now, files, points, popped, csvCalls, influxCalls,
                   faults>>

\* _cleanup(), then run() and main() return
Cleanup ==
    /\ pc = "cleanup"
    /\ \E stopRaises \in BOOLEAN, closeRaises \in BOOLEAN :
          /\ stopCalls' = IF reader # "None" THEN stopCalls + 1 ELSE stopCalls
          /\ reader' = IF reader # "None" /\ ~stopRaises THEN "stopped" ELSE reader
          /\ closeCalls' = IF influx_client # "None" THEN closeCalls + 1 ELSE closeCalls
          /\ influx_client' = IF influx_client # "None" /\ ~closeRaises
                              THEN "closed" ELSE influx_client
          /\ errors' = errors + (IF reader # "None" /\ stopRaises THEN 1 ELSE 0)
                              + (IF influx_client # "None" /\ closeRaises THEN 1 ELSE 0)
    /\ pc' = "exited"
    /\ exitStatus' = 0
    /\ UNCHANGED <<cfg, env, connects, feed, pushed, data_queue, readerOk, write_api, queue_data,
                   parsed_data, now, files, points, popped, csvCalls, influxCalls,
                   faults>>

Next ==
    \/ ExitInitFailure
    \/ EnterLoop
    \/ QueuePut
    \/ QueueGet
    \/ QueueGetEmpty
    \/ Parse
    \/ WriteCsv
    \/ WriteInflux
    \/ Tick
    \/ Interrupt
    \/ Cleanup

SpecRun == InitRun /\ [][Next]_vars
SpecQueue == InitQueue /\ [][Next]_vars

\* the shutdown path, for feeds of at most one item, with the scheduling run()
\* has: once the KeyboardInterrupt handler is entered, the finally clause
\* runs _cleanup to its end
InitShutdown == InitRun /\ Len(feed) <= 1
FairSpecShutdown == InitShutdown /\ [][Next]_vars /\ WF_vars(Cleanup)

\* ----------------------------------------------------------------- startup
\* keyword arguments of the create_broute_reader call in _init_broute_reader
InitBrouteReaderKwargs ==
    {"broute_id", "broute_password", "serial_port", "baudrate", "timeout",
     "properties", "interval_seconds", "record_queue"}

\* parameters of create_broute_reader
CreateBrouteReaderParams ==
    {"broute_id", "broute_password", "serial_port", "baudrate", "timeout",
     "properties", "interval_seconds"}

\* a Python call with keyword arguments binds when every keyword names a
\* parameter; otherwise it raises TypeError before the body runs
CallBinds(kwargs, params) == kwargs \subseteq params

\* _init_broute_reader(): the reader it leaves in self.reader, its return
\* value and its logger.error calls
BrouteReaderInit(deviceOk) ==
    IF ~CallBinds(InitBrouteReaderKwargs, CreateBrouteReaderParams)
    THEN {[reader |-> "None", ret |-> FALSE, logged |-> 1]}
    ELSE IF deviceOk
    THEN {[reader |-> "started", ret |-> TRUE, logged |-> 0]}
    ELSE {[reader |-> "None", ret |-> FALSE, logged |-> 1],
          [reader |-> "created", ret |-> FALSE, logged |-> 1]}

\* the object as __init__ leaves it, run() just called
InitStartup ==
    /\ pushed = 0
    /\ data_queue = <<>>
    /\ pc = "start"
    /\ queue_data = NoItem
    /\ parsed_data = PyNone
    /\ now = 1
    /\ files = [d \in 1..MaxDay |-> NoFile]
    /\ points = <<>>
    /\ popped = 0
    /\ csvCalls = <<>>
    /\ influxCalls = <<>>
    /\ errors = 0
    /\ faults = 0
    /\ exitStatus = -1
    /\ stopCalls = 0
    /\ closeCalls = 0
    /\ connects = 0
    /\ influx_client = "None" /\ write_api = "None"
    /\ reader = "None"
    /\ readerOk = FALSE
    /\ \E csv \in BOOLEAN, influx \in BOOLEAN :
          cfg = Config(csv, influx)
    /\ \E lib \in BOOLEAN, device \in BOOLEAN :
          env = Host(lib, device)
    /\ feed \in (IF env.deviceOk THEN Feeds ELSE {<<>>})

\* run() line 291: _init_influxdb(), its return value is not used
InitInfluxdb ==
    /\ pc = "start"
    /\ \E o \in InfluxInit(cfg.influxEnabled, env.influxLib) :
          /\ influx_client' = o.client
          /\ write_api' = o.api
          /\ connects' = connects + o.attempts
          /\ errors' = errors + o.logged
    /\ pc' = "reader_init"
    /\ UNCHANGED <<cfg, env, feed, pushed, data_queue, readerOk, reader,
                   queue_data, parsed_data, now, files, points, popped, csvCalls,
                   influxCalls, faults, exitStatus, stopCalls, closeCalls>>

\* run() line 294: the call of _init_broute_reader()
InitBrouteReader ==
    /\ pc = "reader_init"
    /\ \E o \in BrouteReaderInit(env.deviceOk) :
          /\ reader' = o.reader
          /\ readerOk' = o.ret
          /\ errors' = errors + o.logged
    /\ pc' = "init_done"
    /\ UNCHANGED <<cfg, env, connects, feed, pushed, data_queue, influx_client,
                   write_api, queue_data, parsed_data, now, files, points, popped,
                   csvCalls, influxCalls, faults, exitStatus, stopCalls,
                   closeCalls>>

\* run() from its first line up to the loop
NextStartup ==
    \/ InitInfluxdb
    \/ InitBrouteReader
    \/ ExitInitFailure

SpecStartup == InitStartup /\ [][NextStartup]_vars

\* ------------------------------------------------------- helpers of the claims
\* the i-th popped item is the i-th item the producer put
Popped(i) == feed[i]
\* item i has gone through the whole pass of the loop
PassDone(i) == i < popped \/ (i = popped /\ pc = "get")

RowLines(f) == SelectSeq(f.lines, LAMBDA l : l.kind = "row")
HeaderLines(f) == SelectSeq(f.lines, LAMBDA l : l.kind = "header")

RECURSIVE RowsUpTo(_)
\* the data rows of the files named 1..d, in the order they were appended
RowsUpTo(d) == IF d = 0 THEN <<>> ELSE RowsUpTo(d - 1) \o RowLines(files[d])
AllRows == RowsUpTo(MaxDay)

\* C1: with both sinks enabled, every decoded record whose pass is over and
\* that was handed to _write_to_csv was handed to _write_to_influxdb exactly
\* once, whatever happened inside the CSV write.
C1_CsvFailureStillReachesInflux ==
    (cfg.csvEnabled /\ cfg.influxEnabled /\ write_api = "api") =>
        \A i \in 1..popped :
            (csvCalls[i] >= 1 /\ PassDone(i)) => influxCalls[i] = 1

\* C2: the loop is left only by the KeyboardInterrupt handler, a step that
\* logs no error.  Every other step of the running loop, and so every step
\* that drops a record or logs an error (a failed conversion, a record of the
\* wrong shape, an exception from the parser, a CSV or InfluxDB write
\* failure), leaves the loop running and the process alive, and a step that
\* logs an error leaves the queued records in place for the next get.
C2_FailureKeepsRunning ==
    [][Running =>
          \/ /\ Running' /\ exitStatus' = -1
             /\ errors' > errors => data_queue' = data_queue
          \/ pc' = "cleanup" /\ errors' = errors]_vars

\* the first record failed and the second one was popped, decoded and is
\* about to be dispatched
C2_Witness ==
    /\ pc = "csv" /\ popped = 2 /\ errors >= 1

\* C3: when _init_broute_reader returned False the process exits with status
\* 1 and the loop is never entered (nothing popped, no sink called, no
\* output); a shutdown by KeyboardInterrupt from the loop ends with status 0.
C3_InitFailureExits1 ==
    /\ ~readerOk =>
          /\ pc \in {"init_done", "exited"}
          /\ pc = "exited" => exitStatus = 1
          /\ popped = 0 /\ csvCalls = <<>> /\ influxCalls = <<>>
          /\ points = <<>> /\ \A d \in 1..MaxDay : files[d] = NoFile
    /\ (readerOk /\ pc = "exited") => exitStatus = 0

C3_Witness == ~readerOk /\ pc = "exited" /\ exitStatus = 1 /\ popped = 0

\* C4: the queue never holds more than 50 items, and while it holds 50 no
\* put completes and no item is lost: the only change is the consumer's get.
C4_QueueBounded ==
    /\ [](Len(data_queue) <= 50)
    /\ [][Len(data_queue) = 50 =>
             (pushed' = pushed /\ data_queue' \in {data_queue, Tail(data_queue)})]_vars

\* the queue is full and the producer has another item to put
C4_Witness == Len(data_queue) = 50 /\ pushed < Len(feed) /\ reader = "started"

\* the dicts _parse_queue_data returns for the first n items of the feed,
\* leaving out the items it returns None for
RECURSIVE DecodedPrefix(_)
DecodedPrefix(n) ==
    IF n = 0 THEN <<>>
    ELSE LET r == ParseQueueData(feed[n]).ret IN
         DecodedPrefix(n - 1) \o (IF Truthy(r) THEN <<r>> ELSE <<>>)

\* the value cells of the rows appended, and the fields of the points
\* submitted, in order
RowValues == [i \in 1..Len(AllRows) |-> AllRows[i].cells[2]]
PointFields == [i \in 1..Len(points) |-> points[i].fields]
ExpectedRowValues(n) ==
    [i \in 1..Len(DecodedPrefix(n)) |-> FormatValue(DecodedPrefix(n)[i].items[1].v)]
ExpectedPointFields(n) ==
    [i \in 1..Len(DecodedPrefix(n)) |-> DecodedPrefix(n)[i].items]

\* C5: with both sinks enabled and connected and no sink failure, the queue
\* holds the put-but-not-popped items in put order, and between two passes of
\* the loop the rows appended to the CSV files and the points submitted are
\* each exactly the decodable ones among the popped items, in put order; in
\* the middle of a pass at most the item in hand is still missing.
C5_OutputsFollowFeed ==
    (cfg.csvEnabled /\ cfg.influxEnabled /\ write_api = "api" /\ faults = 0) =>
        /\ popped <= pushed
        /\ data_queue = SubSeq(feed, popped + 1, pushed)
        /\ \E k \in {popped - 1, popped} \cap Nat : RowValues = ExpectedRowValues(k)
        /\ \E k \in {popped - 1, popped} \cap Nat : PointFields = ExpectedPointFields(k)
        /\ pc = "get" =>
              /\ RowValues = ExpectedRowValues(popped)
              /\ PointFields = ExpectedPointFields(popped)

\* two different decodable records were put and processed: two rows and two
\* points were written
C5_Witness ==
    /\ cfg.csvEnabled /\ cfg.influxEnabled /\ write_api = "api" /\ faults = 0
    /\ pc = "get" /\ data_queue = <<>> /\ popped = Len(feed) /\ popped >= 2
    /\ Len(AllRows) = popped /\ Len(points) = popped
    /\ feed[1] # feed[2]

\* C6: once the KeyboardInterrupt handler of run() is entered the process
\* reaches its end, and at that end reader.stop() has been called once and
\* close() has been called once on the InfluxDB client if there is one, also
\* when reader.stop() raised.
C6_ShutdownCleansUp ==
    /\ (pc = "cleanup") ~> (pc = "exited")
    /\ [](pc = "exited" /\ readerOk =>
            /\ stopCalls = 1
            /\ influx_client # "None" => closeCalls = 1)

\* the shutdown is over, reader.stop() raised (the reader is not marked
\* stopped) and the client was closed all the same
C6_Witness ==
    /\ pc = "exited" /\ readerOk
    /\ reader = "started" /\ stopCalls = 1
    /\ influx_client = "closed" /\ closeCalls = 1

\* the property codes of the fixed table
TableCodes == {"D3", "D7", "E1", "E7", "E0", "E3", "E8R", "E8T"}
\* a well-formed record that is not from "BR" or whose code is not in the table
Foreign(item) ==
    item.kind = "list" /\ item.n >= 3 /\ (item.source # "BR" \/ item.epc \notin TableCodes)
\* this step is the loop's parse of the item in hand
ParseStep == pc = "parse" /\ pc' \notin {"parse", "cleanup"}

\* C7: parsing a record whose source tag is not "BR" or whose code is not in
\* the table yields None, logs no error and returns to the get; neither
\* _write_to_csv nor _write_to_influxdb is ever called for such a record.
C7_ForeignRecordIgnored ==
    /\ [][(ParseStep /\ Foreign(queue_data)) =>
             (parsed_data' = PyNone /\ errors' = errors /\ pc' = "get")]_vars
    /\ [](\A i \in 1..popped :
             Foreign(Popped(i)) => (csvCalls[i] = 0 /\ influxCalls[i] = 0))

\* a record with another source tag, carrying a known code and a good value,
\* has been parsed and dropped
C7_Witness ==
    /\ pc = "get" /\ popped >= 1
    /\ Popped(popped).kind = "list" /\ Popped(popped).n >= 3
    /\ Popped(popped).source # "BR" /\ Popped(popped).epc = "E7"
    /\ Popped(popped).value = <<"1", "5">>

\* the values the raw strings of RawValues denote
IntOf(s) ==
    CASE s = <<"1", "5">> -> 15
      [] s = <<"0">> -> 0
      [] s = <<"-", "3">> -> 0 - 3
TenthsOf(s) ==
    CASE s = <<"1", "5">> -> 150
      [] s = <<"0">> -> 0
      [] s = <<"-", "3">> -> 0 - 30
      [] s = <<"2", ".", "5">> -> 25
IntLiterals == {<<"1", "5">>, <<"0">>, <<"-", "3">>}
FloatLiterals == IntLiterals \cup {<<"2", ".", "5">>}
IntCodes == {"D3", "D7", "E1", "E7"}
\* a "BR" record with a table code and a value of the declared type
WellTyped(item) ==
    /\ item.kind = "list" /\ item.n >= 3 /\ item.source = "BR"
    /\ item.epc \in TableCodes
    /\ item.value \in (IF item.epc \in IntCodes THEN IntLiterals ELSE FloatLiterals)
ValueOf(item) ==
    IF item.epc \in IntCodes THEN [type |-> "int", n |-> IntOf(item.value)]
    ELSE [type |-> "float", n |-> TenthsOf(item.value)]

\* the names as the claim assigns them
ClaimedName(epc) ==
    CASE epc = "D3" -> "coefficient"
      [] epc = "D7" -> "unit"
      [] epc = "E1" -> "effective_digits"
      [] epc = "E7" -> "instant_power_w"
      [] epc = "E0" -> "energy_total_kwh"
      [] epc = "E3" -> "energy_reverse_kwh"
      [] epc = "E8R" -> "instant_current_r"
      [] epc = "E8T" -> "instant_current_t"
\* the names with those of D7 and E1 exchanged
AmendedName(epc) ==
    CASE epc = "D7" -> "effective_digits"
      [] epc = "E1" -> "unit"
      [] OTHER -> ClaimedName(epc)

\* C8 as stated: a well-typed record decodes to the claimed name (D7 unit,
\* E1 effective_digits) and the parsed value.
C8_DecodeAsClaimed ==
    [][(ParseStep /\ WellTyped(queue_data)) =>
          (/\ pc' = "csv"
           /\ parsed_data' = Dict(<<[k |-> ClaimedName(queue_data.epc),
                                     v |-> ValueOf(queue_data)]>>))]_vars

\* C8 amended: a well-typed record decodes to the name of its code, D7 being
\* effective_digits and E1 unit, and the parsed value of the declared type.
C8_DecodeAmended ==
    [][(ParseStep /\ WellTyped(queue_data)) =>
          (/\ pc' = "csv"
           /\ parsed_data' = Dict(<<[k |-> AmendedName(queue_data.epc),
                                     v |-> ValueOf(queue_data)]>>))]_vars

\* a D7 record was decoded to effective_digits
C8_Witness ==
    /\ pc = "csv" /\ WellTyped(queue_data) /\ queue_data.epc = "D7"
    /\ parsed_data = Dict(<<[k |-> "effective_digits", v |-> [type |-> "int", n |-> 15]]>>)

\* C9, for the files that hold data: a file with at least one data row has
\* exactly one header line, and it is the first line of the file.
C9_OneHeaderFirst ==
    \A d \in 1..MaxDay :
        RowLines(files[d]) # <<>> =>
            /\ Len(HeaderLines(files[d])) = 1
            /\ files[d].lines[1].kind = "header"

\* the columns of the long format
LongColumns == <<"timestamp", "unitid", "epc", "dataid", "value">>

\* C10: the header of every file is the fixed column list timestamp, unitid,
\* epc, dataid, value, and every data row has those five columns.
C10_LongFormat ==
    \A d \in 1..MaxDay : \A i \in 1..Len(files[d].lines) :
        LET l == files[d].lines[i] IN
        /\ l.kind = "header" => l.cells = LongColumns
        /\ l.kind = "row" => Len(l.cells) = Len(LongColumns)

\* C11: every point submitted to the time-series store carries all configured
\* tags plus the tags epc and unitid, and exactly one field, named value.
C11_PointTagsAndValueField ==
    \A p \in 1..Len(points) :
        LET tagKeys == {points[p].tags[j].k : j \in 1..Len(points[p].tags)} IN
        /\ \A i \in 1..Len(cfg.tags) :
              \E j \in 1..Len(points[p].tags) : points[p].tags[j] = cfg.tags[i]
        /\ "epc" \in tagKeys
        /\ "unitid" \in tagKeys
        /\ Len(points[p].fields) = 1
        /\ points[p].fields[1].k = "value"

\* C12: with the time-series sink disabled, no client is ever constructed and
\* no point is ever submitted, whatever records are processed.
C12_DisabledSinkUntouched ==
    ~cfg.influxEnabled =>
        /\ connects = 0
        /\ influx_client = "None"
        /\ write_api = "None"
        /\ points = <<>>

\* a decoded record has been offered to the disabled sink
C12_Witness ==
    /\ ~cfg.influxEnabled
    /\ pc = "get" /\ popped >= 1
    /\ Truthy(parsed_data)
    /\ influxCalls[popped] = 1

\* C13: when the sink is enabled and its connection fails, startup is not
\* aborted: with a device that can be started, the process does not exit during
\* the initialisation and goes on to the loop.
C13_StartupSurvivesConnectionFailure ==
    (/\ cfg.influxEnabled /\ env.influxLib
     /\ connects = 1 /\ write_api = "None"
     /\ env.deviceOk)
        => pc # "exited"

\* C14: an item put in the queue is taken from it at most once, each sink's
\* write is called at most once for a taken item, also after a failure, and the
\* queue holds only items not taken yet.
C14_AtMostOnce ==
    /\ popped <= pushed
    /\ data_queue = SubSeq(feed, popped + 1, pushed)
    /\ \A i \in 1..popped : csvCalls[i] <= 1 /\ influxCalls[i] <= 1

\* a write failed for the first item and the second item has been taken
C14_Witness ==
    /\ faults = 1 /\ errors >= 1
    /\ popped = 2 /\ pc = "parse"
    /\ csvCalls[1] = 1

\* C15: once a decoded record has been handed to the CSV writer, a
\* cancellation does not keep the time-series writer from being called for
\* that record before the loop is left (both sinks enabled, no write failure).
C15_DispatchedRecordReachesBothSinks ==
    (/\ pc \in {"cleanup", "exited"}
     /\ popped >= 1
     /\ cfg.csvEnabled /\ cfg.influxEnabled
     /\ faults = 0
     /\ csvCalls[popped] = 1)
        => influxCalls[popped] = 1

\* C16: whenever the device can be started, _init_broute_reader succeeds, so
\* that run() goes on to the loop.
C16_ReaderInitSucceeds ==
    (pc \in {"init_done", "exited"} /\ env.deviceOk) => readerOk

\* C17: once the loop has been left, no item is taken from the queue and no
\* sink is written to, whatever is left in the queue.
C17_NothingAfterCancellation ==
    [][(pc = "cleanup" \/ pc = "exited") =>
          (/\ popped' = popped
           /\ csvCalls' = csvCalls
           /\ influxCalls' = influxCalls
           /\ files' = files
           /\ points' = points)]_vars

\* the process has ended after a cancellation with items left in the queue
C17_Witness ==
    /\ pc = "exited" /\ exitStatus = 0
    /\ data_queue # <<>>

C19_OpenedClientClosedAtExit ==
    pc = "exited" => influx_client # "open"

====
